---- MODULE Spec2Model ----
(***************************************************************************)
(* affectimo v3.0.0 (src/index.js): scoring a text for AFFECT and          *)
(* INTENSITY against a weighted lexicon.                                   *)
(*                                                                         *)
(* JavaScript values are records [t, k, n, s, a]: t is the type tag, k the *)
(* kind of a number (fin, inf, ninf, nan), n a number in hundredths (or    *)
(* 0/1 for a boolean), s the content of a string and a the elements of an  *)
(* array of integers.  An option string is the sequence of its characters. *)
(* A text is the sequence of its lexemes: each element is a word or a      *)
(* whitespace run, and neighbouring words are separate words.  A term (a   *)
(* token, an n-gram, a lexicon key) is the sequence of its words.          *)
(***************************************************************************)
EXTENDS Integers, Sequences, FiniteSets, TLC

VARIABLES opts, str, given, ret, warnings, events, passed

vars == <<opts, str, given, ret, warnings, events, passed>>

----------------------------------------------------------------------------
(* Bounds of the model                                                     *)

MaxLen == 3

MaxSupplied == 2

----------------------------------------------------------------------------
(* JavaScript values                                                       *)

JS(t, k, n, s, a) == [t |-> t, k |-> k, n |-> n, s |-> s, a |-> a]

Undefined == JS("undefined", "", 0, <<>>, <<>>)

Bool(b) == JS("boolean", "", IF b THEN 1 ELSE 0, <<>>, <<>>)

Num(c) == JS("number", "fin", c, <<>>, <<>>)

IntNum(i) == Num(100 * i)

POSITIVE_INFINITY == JS("number", "inf", 0, <<>>, <<>>)

NEGATIVE_INFINITY == JS("number", "ninf", 0, <<>>, <<>>)

NaN == JS("number", "nan", 0, <<>>, <<>>)

Str(s) == JS("string", "", 0, s, <<>>)

Arr(a) == JS("array", "", 0, <<>>, a)

\* typeof v
TypeOf(v) == IF v.t = "array" THEN "object" ELSE v.t

\* ToBoolean(v), as in  if (v), !v
Truthy(v) ==
  CASE v.t = "undefined" -> FALSE
    [] v.t = "boolean" -> v.n = 1
    [] v.t = "number" -> ~(v.k = "nan" \/ (v.k = "fin" /\ v.n = 0))
    [] v.t = "string" -> v.s # <<>>
    [] OTHER -> TRUE

Whitespace == {" "}

IsDigit(c) == c \in {"0", "1", "2", "3", "4", "5", "6", "7", "8", "9"}

DigitVal(c) ==
  CASE c = "0" -> 0 [] c = "1" -> 1 [] c = "2" -> 2 [] c = "3" -> 3
    [] c = "4" -> 4 [] c = "5" -> 5 [] c = "6" -> 6 [] c = "7" -> 7
    [] c = "8" -> 8 [] c = "9" -> 9 [] OTHER -> 0

AllDigits(s) == \A i \in DOMAIN s : IsDigit(s[i])

RECURSIVE NatOf(_)
NatOf(s) ==
  IF s = <<>> THEN 0
  ELSE 10 * NatOf(SubSeq(s, 1, Len(s) - 1)) + DigitVal(s[Len(s)])

RECURSIVE TrimLeft(_)
TrimLeft(s) ==
  IF s # <<>> /\ s[1] \in Whitespace THEN TrimLeft(Tail(s)) ELSE s

RECURSIVE TrimRight(_)
TrimRight(s) ==
  IF s # <<>> /\ s[Len(s)] \in Whitespace
  THEN TrimRight(SubSeq(s, 1, Len(s) - 1)) ELSE s

\* String.prototype.trim
Trim(s) == TrimRight(TrimLeft(s))

\* hundredths given by the fraction digits fp (digits after the second are
\* below the resolution of the model)
FracCents(fp) ==
  (IF Len(fp) >= 1 THEN 10 * DigitVal(fp[1]) ELSE 0)
  + (IF Len(fp) >= 2 THEN DigitVal(fp[2]) ELSE 0)

\* an unsigned decimal literal: digits, optionally a point and digits
UnsignedLiteral(s) ==
  LET dots == {i \in DOMAIN s : s[i] = "."}
  IN IF dots = {}
     THEN IF s # <<>> /\ AllDigits(s) THEN Num(100 * NatOf(s)) ELSE NaN
     ELSE IF Cardinality(dots) > 1 THEN NaN
     ELSE LET i == CHOOSE j \in dots : TRUE
              ip == SubSeq(s, 1, i - 1)
              fp == SubSeq(s, i + 1, Len(s))
          IN IF AllDigits(ip) /\ AllDigits(fp) /\ (ip # <<>> \/ fp # <<>>)
             THEN Num(100 * NatOf(ip) + FracCents(fp))
             ELSE NaN

\* Number(s) for a string s
StringToNumber(s) ==
  LET u == Trim(s)
  IN IF u = <<>> THEN Num(0)
     ELSE IF u[1] = "-"
          THEN LET m == UnsignedLiteral(Tail(u))
               IN IF m.k = "fin" THEN Num(0 - m.n) ELSE NaN
          ELSE UnsignedLiteral(u)

\* Number(v)
ToNumber(v) ==
  CASE v.t = "number" -> v
    [] v.t = "undefined" -> NaN
    [] v.t = "boolean" -> Num(100 * v.n)
    [] v.t = "string" -> StringToNumber(v.s)
    [] v.t = "array" ->
         IF v.a = <<>> THEN Num(0)
         ELSE IF Len(v.a) = 1 THEN IntNum(v.a[1]) ELSE NaN

\* x > y for two numbers
NumGT(x, y) ==
  CASE x.k = "nan" \/ y.k = "nan" -> FALSE
    [] x.k = "inf" -> y.k # "inf"
    [] x.k = "ninf" -> FALSE
    [] y.k = "inf" -> FALSE
    [] y.k = "ninf" -> TRUE
    [] OTHER -> x.n > y.n

\* v > y, with v converted to a number as the relational operator does
GreaterThan(v, y) == NumGT(ToNumber(v), ToNumber(y))

LowerChar(c) ==
  CASE c = "A" -> "a" [] c = "B" -> "b" [] c = "C" -> "c" [] c = "D" -> "d"
    [] c = "E" -> "e" [] c = "F" -> "f" [] c = "G" -> "g" [] c = "H" -> "h"
    [] c = "I" -> "i" [] c = "J" -> "j" [] c = "K" -> "k" [] c = "L" -> "l"
    [] c = "M" -> "m" [] c = "N" -> "n" [] c = "O" -> "o" [] c = "P" -> "p"
    [] c = "Q" -> "q" [] c = "R" -> "r" [] c = "S" -> "s" [] c = "T" -> "t"
    [] c = "U" -> "u" [] c = "V" -> "v" [] c = "W" -> "w" [] c = "X" -> "x"
    [] c = "Y" -> "y" [] c = "Z" -> "z" [] OTHER -> c

\* String.prototype.toLowerCase
ToLowerCase(s) == [i \in DOMAIN s |-> LowerChar(s[i])]

\* s.match(/pat/gi) is not null: pat occurs in s, whatever the case
MatchesCI(s, pat) ==
  LET l == ToLowerCase(s)
  IN \E i \in 1..(Len(l) - Len(pat) + 1) :
       SubSeq(l, i, i + Len(pat) - 1) = pat

RECURSIVE NatToString(_)
NatToString(i) ==
  IF i < 10 THEN <<CHOOSE c \in {"0", "1", "2", "3", "4", "5", "6", "7", "8",
                                  "9"} : DigitVal(c) = i>>
  ELSE NatToString(i \div 10) \o NatToString(i % 10)

\* v.toString() for the non-string texts of the model (natural numbers)
JsToString(v) ==
  CASE v.t = "string" -> v.s
    [] v.t = "number" /\ v.k = "fin" /\ v.n >= 0 /\ v.n % 100 = 0 ->
         NatToString(v.n \div 100)
    [] OTHER -> <<"?">>

----------------------------------------------------------------------------
(* Strings of the program                                                  *)

sUS == <<"U", "S">>

sGB == <<"G", "B">>

sBinary == <<"b", "i", "n", "a", "r", "y">>

sFrequency == <<"f", "r", "e", "q", "u", "e", "n", "c", "y">>

sLex == <<"l", "e", "x">>

sMatches == <<"m", "a", "t", "c", "h", "e", "s">>

sFull == <<"f", "u", "l", "l">>

sFreq == <<"f", "r", "e", "q">>

sWeight == <<"w", "e", "i", "g", "h", "t">>

----------------------------------------------------------------------------
(* Option defaulting, src/index.js 79-104: the caller's object is written  *)
(* in place, one assignment after the other.                               *)

OrDefault(v, d) == IF TypeOf(v) # "undefined" THEN v ELSE d

DefaultEncoding(o) == [o EXCEPT !.encoding = OrDefault(o.encoding, Str(sUS))]

DefaultLocale(o) == [o EXCEPT !.locale = OrDefault(o.logs, IntNum(3))]

\* a log level that does not look at suppressLog
DefaultLogs_IgnoresSuppress(o) ==
  [o EXCEPT !.logs = OrDefault(o.logs, IntNum(3))]

DefaultLogs(o) ==
  LET o1 == [o EXCEPT !.logs = OrDefault(o.logs, IntNum(3))]
  IN IF Truthy(o1.suppressLog) THEN [o1 EXCEPT !.logs = IntNum(0)] ELSE o1

\* lines 85-92: the conversion of a bound that is not a number
CoerceBounds(o) ==
  LET o1 == [o EXCEPT !.min = ToNumber(o.min)]
      o2 == [o1 EXCEPT !.max = ToNumber(o1.max)]
      o3 == [o2 EXCEPT !.max = IF TypeOf(o2.max) # "number" THEN o2.max
                                ELSE POSITIVE_INFINITY]
  IN [o3 EXCEPT !.min = IF TypeOf(o3.min) # "number" THEN o3.min
                        ELSE NEGATIVE_INFINITY]

DefaultBounds(o) ==
  LET o1 == [o EXCEPT !.max = OrDefault(o.max, POSITIVE_INFINITY)]
      o2 == [o1 EXCEPT !.min = OrDefault(o1.min, NEGATIVE_INFINITY)]
  IN IF TypeOf(o2.max) # "number" \/ TypeOf(o2.min) # "number"
     THEN CoerceBounds(o2) ELSE o2

\* Array.isArray(v)
IsArray(v) == v.t = "array"

\* lines 93-100; w is the warning of line 96, when it is printed
DefaultNGrams(o) ==
  LET o1 == [o EXCEPT !.nGrams = OrDefault(o.nGrams, Arr(<<2, 3>>))]
  IN IF ~IsArray(o1.nGrams)
     THEN [o |-> [o1 EXCEPT !.nGrams = Arr(<<2, 3>>)],
           w |-> IF GreaterThan(o1.logs, IntNum(1))
                 THEN <<[msg |-> "nGramsNotArray", n |-> 0]>> ELSE <<>>]
     ELSE [o |-> o1, w |-> <<>>]

DefaultOutput(o) == [o EXCEPT !.output = OrDefault(o.output, Str(sLex))]

DefaultPlaces(o) == [o EXCEPT !.places = OrDefault(o.places, IntNum(9))]

DefaultSortBy(o) == [o EXCEPT !.sortBy = OrDefault(o.sortBy, Str(sFreq))]

DefaultWcGrams(o) == [o EXCEPT !.wcGrams = OrDefault(o.wcGrams, Bool(FALSE))]

Defaults(o) ==
  LET g == DefaultNGrams(DefaultBounds(DefaultLogs(DefaultLocale(
             DefaultEncoding(o)))))
  IN [o |-> DefaultWcGrams(DefaultSortBy(DefaultPlaces(DefaultOutput(g.o)))),
      w |-> g.w]

----------------------------------------------------------------------------
(* Text, tokens and n-grams, src/index.js 113-146                          *)

\* a test for a missing text that lets the empty string through
NoString_OnlyUndefined(v) == v.t = "undefined"

\* line 113: !str
NoString(v) == ~Truthy(v)

\* lines 118-120
Normalise(v) ==
  Trim(ToLowerCase(IF TypeOf(v) # "string" THEN JsToString(v) ELSE v.s))

\* trans.uk2us: the British spelling of a word is replaced by the American
\* one; the dictionary of the model has one entry: the word b is the British
\* spelling of the word a
Uk2Us(s) == [i \in DOMAIN s |-> IF s[i] = "b" THEN "a" ELSE s[i]]

\* line 122
Translate(locale, s) == IF locale = Str(sGB) THEN Uk2Us(s) ELSE s

IsWord(c) == c \notin Whitespace

Words(s) == SelectSeq(s, IsWord)

\* what the tokenizer may give for a text without a word: null or []
EmptyOutcomes ==
  {[null |-> TRUE, toks |-> <<>>], [null |-> FALSE, toks |-> <<>>]}

\* tokenizer(str): one token per word; the results it may give
Tokenizer(s) ==
  LET w == Words(s)
  IN IF w = <<>> THEN EmptyOutcomes
     ELSE {[null |-> FALSE, toks |-> [i \in DOMAIN w |-> <<w[i]>>]]}

\* arr2string(simplengrams(str, n)): the spans of n neighbouring words
NGrams(s, n) ==
  LET w == Words(s)
  IN [i \in 1..(Len(w) - n + 1) |-> SubSeq(w, i, i + n - 1)]

\* an iteration that ends at the first order that is skipped
RECURSIVE EachNGram_StopsAtSkip(_, _, _, _)
EachNGram_StopsAtSkip(s, wordcount, orders, acc) ==
  IF orders = <<>> THEN acc
  ELSE LET n == Head(orders)
       IN IF wordcount < n
          THEN [acc EXCEPT !.err = <<n>>,
                           !.ev = Append(acc.ev, [op |-> "skip", n |-> n])]
          ELSE EachNGram_StopsAtSkip(s, wordcount, Tail(orders),
                 [acc EXCEPT !.toks = NGrams(s, n) \o acc.toks,
                             !.ev = Append(acc.ev, [op |-> "ngram", n |-> n])])

\* lines 134-143: async.each calls the iteratee for every order, in the
\* order of the array; the final callback gets the first error only
RECURSIVE EachNGram(_, _, _, _)
EachNGram(s, wordcount, orders, acc) ==
  IF orders = <<>> THEN acc
  ELSE LET n == Head(orders)
       IN IF wordcount < n
          THEN EachNGram(s, wordcount, Tail(orders),
                 [acc EXCEPT !.err = IF acc.err = <<>> THEN <<n>> ELSE acc.err,
                             !.ev = Append(acc.ev, [op |-> "skip", n |-> n])])
          ELSE EachNGram(s, wordcount, Tail(orders),
                 [acc EXCEPT !.toks = NGrams(s, n) \o acc.toks,
                             !.ev = Append(acc.ev, [op |-> "ngram", n |-> n])])

\* lines 133-144; w is the message of line 142, when it is printed
NGramStage(s, toks, wordcount, nGrams, logs) ==
  LET r == EachNGram(s, wordcount, nGrams.a,
                     [toks |-> toks, err |-> <<>>, ev |-> <<>>])
  IN [toks |-> r.toks, ev |-> r.ev,
      w |-> IF r.err # <<>> /\ GreaterThan(logs, IntNum(0))
            THEN <<[msg |-> "nGramError", n |-> r.err[1]]>> ELSE <<>>]

\* line 146
Recount(wcGrams, wordcount, toks) ==
  IF Truthy(wcGrams) THEN Len(toks) ELSE wordcount

----------------------------------------------------------------------------
(* Lexicon, Matcher, Aggregator, Match Formatter                           *)

\* a sample of data/lexicon.json: per category the terms in the order of
\* the file, weights in hundredths
Lexicon ==
  [AFFECT |-> <<[term |-> <<"a">>, weight |-> 91],
                [term |-> <<"b">>, weight |-> -98],
                [term |-> <<"a", "b">>, weight |-> 25]>>,
   INTENSITY |-> <<[term |-> <<"b">>, weight |-> 40],
                   [term |-> <<"b", "a">>, weight |-> -12],
                   [term |-> <<"a", "a", "b">>, weight |-> 7]>>]

\* the intercepts of lines 150-153, as whole part w and billionths f
ints ==
  [AFFECT |-> [w |-> 5, f |-> 37104721],
   INTENSITY |-> [w |-> 2, f |-> 399762631]]

Range(q) == {q[i] : i \in DOMAIN q}

\* itemCount(tokens): term -> number of occurrences
ItemCount(toks) ==
  [t \in Range(toks) |-> Cardinality({i \in DOMAIN toks : toks[i] = t})]

\* the records of one category: [term, count, weight] for every lexicon
\* term in the pool whose weight lies between min and max
CategoryMatches(pool, data, min, max) ==
  LET Hit(e) == /\ e.term \in DOMAIN pool
                /\ NumGT(Num(e.weight), min)
                /\ NumGT(max, Num(e.weight))
      hits == SelectSeq(data, Hit)
  IN [i \in DOMAIN hits |->
        [term |-> hits[i].term, count |-> pool[hits[i].term],
         weight |-> hits[i].weight]]

\* getMatches(pool, lexicon, min, max)
GetMatches(pool, lexicon, min, max) ==
  [AFFECT |-> CategoryMatches(pool, lexicon.AFFECT, min, max),
   INTENSITY |-> CategoryMatches(pool, lexicon.INTENSITY, min, max)]

Billion == 1000000000

NanoPerCent == 10000000

\* num / (100 * den) as whole part and billionths
Dec(num, den) ==
  LET q == num \div den
      r == num % den
  IN [w |-> q \div 100, f |-> (q % 100) * NanoPerCent
                              + (r * NanoPerCent) \div den]

AddDec(x, y) ==
  IF x.f + y.f >= Billion THEN [w |-> x.w + y.w + 1, f |-> x.f + y.f - Billion]
  ELSE [w |-> x.w + y.w, f |-> x.f + y.f]

RECURSIVE Pow10(_)
Pow10(p) == IF p <= 0 THEN 1 ELSE 10 * Pow10(p - 1)

\* the number of decimal places asked for
PlacesOf(places) ==
  IF places.t = "number" /\ places.k = "fin" THEN places.n \div 100 ELSE 0

\* rounding to p decimal places
RoundDec(x, p) ==
  IF p >= 9 THEN x
  ELSE LET u == Pow10(9 - p)
           f == ((x.f + u \div 2) \div u) * u
       IN IF f >= Billion THEN [w |-> x.w + 1, f |-> f - Billion]
          ELSE [w |-> x.w, f |-> f]

IsBinary(enc) == enc = Str(sBinary) \/ enc.t = "undefined"

\* a binary sum that takes every weight once per occurrence
RECURSIVE SumWeights_TimesCount(_)
SumWeights_TimesCount(recs) ==
  IF recs = <<>> THEN 0
  ELSE recs[1].count * recs[1].weight + SumWeights_TimesCount(Tail(recs))

RECURSIVE SumWeights(_)
SumWeights(recs) ==
  IF recs = <<>> THEN 0 ELSE recs[1].weight + SumWeights(Tail(recs))

RECURSIVE SumCountWeights(_)
SumCountWeights(recs) ==
  IF recs = <<>> THEN 0
  ELSE recs[1].count * recs[1].weight + SumCountWeights(Tail(recs))

\* a frequency sum that leaves out the division by the wordcount
LexSum_NoWordcount(recs, enc, wc) ==
  IF IsBinary(enc) THEN Dec(SumWeights(recs), 1)
  ELSE Dec(SumCountWeights(recs), 1)

\* the sum over the records of one category, before the intercept
LexSum(recs, enc, wc) ==
  IF IsBinary(enc) THEN Dec(SumWeights(recs), 1)
  ELSE IF recs = <<>> THEN Dec(0, 1)
  ELSE Dec(SumCountWeights(recs), wc)

\* a score that leaves out the intercept
CalcLex_NoIntercept(recs, int, places, enc, wc) ==
  RoundDec(LexSum(recs, enc, wc), PlacesOf(places))

\* calcLex(obj, int, places, enc, wc)
CalcLex(recs, int, places, enc, wc) ==
  RoundDec(AddDec(LexSum(recs, enc, wc), int), PlacesOf(places))

\* doLex(matches, ints, places, encoding, wordcount)
DoLex(matches, int, places, encoding, wordcount) ==
  [AFFECT |-> CalcLex(matches.AFFECT, int.AFFECT, places, encoding,
                      wordcount),
   INTENSITY |-> CalcLex(matches.INTENSITY, int.INTENSITY, places, encoding,
                         wordcount)]

\* x >= y
DecGE(x, y) == x.w > y.w \/ (x.w = y.w /\ x.f >= y.f)

\* the row of one record: term, count, weight and what it adds to the sum
Row(r, wordcount, places, encoding) ==
  [term |-> r.term, count |-> r.count, weight |-> r.weight,
   lex |-> RoundDec(LexSum(<<r>>, encoding, wordcount), PlacesOf(places))]

\* a comes before b in the order asked for by sortBy
Before(a, b, sortBy) ==
  CASE sortBy = Str(sWeight) -> a.weight >= b.weight
    [] sortBy = Str(sLex) -> DecGE(a.lex, b.lex)
    [] OTHER -> a.count >= b.count

RECURSIVE Insert(_, _, _)
Insert(rows, x, sortBy) ==
  IF rows = <<>> THEN <<x>>
  ELSE IF Before(rows[1], x, sortBy)
       THEN <<rows[1]>> \o Insert(Tail(rows), x, sortBy)
       ELSE <<x>> \o rows

RECURSIVE SortRows(_, _)
SortRows(rows, sortBy) ==
  IF rows = <<>> THEN <<>>
  ELSE Insert(SortRows(SubSeq(rows, 1, Len(rows) - 1), sortBy),
              rows[Len(rows)], sortBy)

\* prepareMatches of one category
PrepareMatches(recs, sortBy, wordcount, places, encoding) ==
  SortRows([i \in DOMAIN recs |-> Row(recs[i], wordcount, places, encoding)],
           sortBy)

\* doMatches(matches, sortBy, wordcount, places, encoding)
DoMatches(matches, sortBy, wordcount, places, encoding) ==
  [AFFECT |-> PrepareMatches(matches.AFFECT, sortBy, wordcount, places,
                             encoding),
   INTENSITY |-> PrepareMatches(matches.INTENSITY, sortBy, wordcount, places,
                                encoding)]

----------------------------------------------------------------------------
(* Return values and the Output Composer, src/index.js 155-179             *)

NoLex == [AFFECT |-> Dec(0, 1), INTENSITY |-> Dec(0, 1)]

NoRows == [AFFECT |-> <<>>, INTENSITY |-> <<>>]

\* what a call leaves: kind is pending (no call yet), null, undefined,
\* lex (the score result), matches (the formatter's rows), full (both, under
\* the keys matches and values) or TypeError (the call threw)
Result(kind, lex, rows) == [kind |-> kind, lex |-> lex, matches |-> rows]

\* the keys of the returned object
Keys(r) ==
  CASE r.kind \in {"lex", "matches"} -> {"AFFECT", "INTENSITY"}
    [] r.kind = "full" -> {"matches", "values"}
    [] OTHER -> {}

\* line 155: output.match(/matches/gi)
WantsMatches(output) == MatchesCI(output.s, sMatches)

\* line 158: output.match(/full/gi)
WantsFull(output) == MatchesCI(output.s, sFull)

\* the test of line 173 without its log level
WarnsInvalidOutput_IgnoringLogs(output, logs) == ~MatchesCI(output.s, sLex)

\* line 173: !output.match(/lex/gi) && logs > 1
WarnsInvalidOutput(output, logs) ==
  ~MatchesCI(output.s, sLex) /\ GreaterThan(logs, IntNum(1))

\* lines 160-171: async.parallel runs both tasks and hands the object
\* {matches, values} to its final callback; the return of line 170 is the
\* callback's, and affectimo itself returns nothing
FullBranch(m, v) == Result("undefined", NoLex, NoRows)

Compose(matches, o, wordcount) ==
  LET rows == DoMatches(matches, o.sortBy, wordcount, o.places, o.encoding)
      lex == DoLex(matches, ints, o.places, o.encoding, wordcount)
  IN IF TypeOf(o.output) # "string"
     THEN [ret |-> Result("TypeError", NoLex, NoRows), w |-> <<>>,
           ev |-> <<>>]
     ELSE IF WantsMatches(o.output)
     THEN [ret |-> Result("matches", NoLex, rows), w |-> <<>>,
           ev |-> <<[op |-> "doMatches", n |-> 0]>>]
     ELSE IF WantsFull(o.output)
     THEN [ret |-> FullBranch(rows, lex), w |-> <<>>,
           ev |-> <<[op |-> "doMatches", n |-> 0], [op |-> "doLex", n |-> 0]>>]
     ELSE [ret |-> Result("lex", lex, NoRows),
           w |-> IF WarnsInvalidOutput(o.output, o.logs)
                 THEN <<[msg |-> "invalidOutput", n |-> 0]>> ELSE <<>>,
           ev |-> <<[op |-> "doLex", n |-> 0]>>]

----------------------------------------------------------------------------
(* affectimo(str, opts), src/index.js 77-180                               *)

\* what the call handed to its collaborators
Handed(text, toks, wordcount, min, max, encoding) ==
  [text |-> text, toks |-> toks, wordcount |-> wordcount, min |-> min,
   max |-> max, encoding |-> encoding]

NothingHanded == Handed(<<>>, <<>>, 0, Undefined, Undefined, Undefined)

\* a call whose Matcher reads the tokens before the n-grams are merged
Score_MatcherBeforeNGrams(s, toks, o, w, ev) ==
  LET g == NGramStage(s, toks, Len(toks), o.nGrams, o.logs)
      wordcount == Recount(o.wcGrams, Len(toks), g.toks)
      matches == GetMatches(ItemCount(toks), Lexicon, o.min, o.max)
      c == Compose(matches, o, wordcount)
  IN [opts |-> o, ret |-> c.ret, warnings |-> w \o g.w \o c.w,
      events |-> ev \o <<[op |-> "getMatches", n |-> 0]>> \o g.ev \o c.ev,
      passed |-> Handed(s, g.toks, wordcount, o.min, o.max, o.encoding)]

\* lines 130-179, once there are tokens
Score(s, toks, o, w, ev) ==
  LET g == NGramStage(s, toks, Len(toks), o.nGrams, o.logs)
      wordcount == Recount(o.wcGrams, Len(toks), g.toks)
      matches == GetMatches(ItemCount(g.toks), Lexicon, o.min, o.max)
      c == Compose(matches, o, wordcount)
  IN [opts |-> o, ret |-> c.ret, warnings |-> w \o g.w \o c.w,
      events |-> ev \o g.ev \o <<[op |-> "getMatches", n |-> 0]>> \o c.ev,
      passed |-> Handed(s, g.toks, wordcount, o.min, o.max, o.encoding)]

\* lines 125-129: the test of the tokenizer's result tk, and what follows
AfterTokenizer(tk, s, o, w, ev) ==
  LET ev1 == Append(ev, [op |-> "tokenizer", n |-> 0])
  IN IF tk.null
     THEN [opts |-> o, ret |-> Result("null", NoLex, NoRows),
           warnings |-> IF GreaterThan(o.logs, IntNum(1))
                        THEN Append(w, [msg |-> "noTokens", n |-> 0]) ELSE w,
           events |-> ev1,
           passed |-> Handed(s, <<>>, 0, Undefined, Undefined, Undefined)]
     ELSE Score(s, tk.toks, o, w, ev1)

\* the outcomes a call may have: one for each result the tokenizer may give
Affectimo(text, o0) ==
  LET d == Defaults(o0)
      o == d.o
  IN IF NoString(text)
     THEN {[opts |-> o, ret |-> Result("null", NoLex, NoRows),
            warnings |-> IF GreaterThan(o.logs, IntNum(1))
                         THEN Append(d.w, [msg |-> "noString", n |-> 0])
                         ELSE d.w,
            events |-> <<>>, passed |-> NothingHanded]}
     ELSE LET s0 == Normalise(text)
              s == Translate(o.locale, s0)
              ev == IF o.locale = Str(sGB)
                    THEN <<[op |-> "uk2us", n |-> 0]>> ELSE <<>>
          IN {AfterTokenizer(tk, s, o, d.w, ev) : tk \in Tokenizer(s)}

----------------------------------------------------------------------------
(* The inputs of the model                                                 *)

Fields ==
  {"encoding", "locale", "logs", "suppressLog", "max", "min", "nGrams",
   "output", "places", "sortBy", "wcGrams"}

\* the values a caller supplies for an option
Supplied(f) ==
  CASE f = "encoding" -> {Str(sBinary), Str(sFrequency)}
    [] f = "locale" -> {Str(sGB)}
    [] f = "logs" -> {IntNum(1), Str(sGB)}
    [] f = "suppressLog" -> {Bool(TRUE)}
    [] f = "max" -> {Num(50), Str(<<"0", ".", "5">>), Str(<<"x">>)}
    [] f = "min" -> {Num(-98), Num(91), Str(<<"-", "0", ".", "5">>)}
    [] f = "nGrams" -> {Bool(FALSE), Arr(<<>>), Arr(<<3, 2>>), Arr(<<2, 2>>)}
    [] f = "output" -> {Str(sMatches), Str(sFull),
                        Str(<<"M", "a", "t", "c", "h", "e", "s">>),
                        Str(<<"L", "e", "x">>),
                        Str(<<"b", "o", "g", "u", "s">>), IntNum(5)}
    [] f = "places" -> {IntNum(2)}
    [] f = "sortBy" -> {Str(sWeight)}
    [] f = "wcGrams" -> {Bool(TRUE), Str(<<"f", "a", "l", "s", "e">>)}

NoOpts == [f \in Fields |-> Undefined]

RECURSIVE Supply(_, _)
Supply(o, F) ==
  IF F = {} THEN {o}
  ELSE LET f == CHOOSE x \in F : TRUE
       IN UNION {Supply([o EXCEPT ![f] = v], F \ {f}) : v \in Supplied(f)}

\* the options objects of the model: at most MaxSupplied options supplied
OptsSet ==
  UNION {Supply(NoOpts, F) :
           F \in {G \in SUBSET Fields : Cardinality(G) <= MaxSupplied}}

\* the words a text is built from, one of them in upper case
TextAlphabet == {"a", "B"}

\* texts with whitespace: nothing but whitespace, whitespace at both ends,
\* whitespace between two words and at the end
Padded == {<<" ">>, <<" ", "a", " ">>, <<"B", " ", "a", " ">>}

RECURSIVE SeqsUpTo(_, _)
SeqsUpTo(S, n) ==
  IF n = 0 THEN {<<>>}
  ELSE LET shorter == SeqsUpTo(S, n - 1)
       IN shorter \cup {Append(q, x) : q \in shorter, x \in S}

\* the text arguments of the model: strings of up to MaxLen words, strings
\* with whitespace, and values that are no strings
Texts ==
  {Str(q) : q \in SeqsUpTo(TextAlphabet, MaxLen) \cup Padded}
    \cup {Undefined, IntNum(0), IntNum(5)}

----------------------------------------------------------------------------
(* The state machine: the caller holds an options object and a text and    *)
(* calls affectimo with them, any number of times.                         *)

Init ==
  /\ opts \in OptsSet
  /\ str \in Texts
  /\ given = opts
  /\ ret = Result("pending", NoLex, NoRows)
  /\ warnings = <<>>
  /\ events = <<>>
  /\ passed = NothingHanded

Call ==
  \E r \in Affectimo(str, opts) :
       /\ given' = opts
       /\ opts' = r.opts
       /\ ret' = r.ret
       /\ warnings' = r.warnings
       /\ events' = r.events
       /\ passed' = r.passed
       /\ UNCHANGED str

Next == Call

Spec == Init /\ [][Next]_vars

\* the caller makes one call, with the options object as it was built
FirstCall == ret.kind = "pending" /\ Call

NextFirstCall == FirstCall

SpecFirstCall == Init /\ [][NextFirstCall]_vars

----------------------------------------------------------------------------
(* Vocabulary of the properties                                            *)

\* a call has been made and has ended
Returned == ret.kind # "pending"

Happened(op) == \E i \in DOMAIN events : events[i].op = op

Warned(msg) == \E i \in DOMAIN warnings : warnings[i].msg = msg

\* the last call got tokens from the tokenizer for a text with a word
YieldedTokens == Happened("tokenizer") /\ Words(passed.text) # <<>>

\* what the Matcher, the Aggregator and the Match Formatter give for the
\* token pool, bounds, wordcount and encoding that the last call handed on
HandedMatches ==
  GetMatches(ItemCount(passed.toks), Lexicon, passed.min, passed.max)

HandedScores ==
  DoLex(HandedMatches, ints, opts.places, passed.encoding, passed.wordcount)

HandedRows ==
  DoMatches(HandedMatches, opts.sortBy, passed.wordcount, opts.places,
            passed.encoding)

----------------------------------------------------------------------------
(* C1 *)

\* C1: for every input that yields at least one token, a call with
\* output = 'full' returns an object with exactly the two keys matches (the
\* Match Formatter's output) and values (the Aggregator's score result),
\* never undefined or null.
C1_FullReturnsBoth ==
  (Returned /\ YieldedTokens /\ opts.output = Str(sFull)) =>
    /\ ret.kind = "full"
    /\ Keys(ret) = {"matches", "values"}
    /\ ret.matches = HandedRows
    /\ ret.lex = HandedScores

----------------------------------------------------------------------------
(* C2 *)

\* C2: for every non-empty input string and every configuration the call
\* returns null or a result in which both AFFECT and INTENSITY are present,
\* and never anything else.
C2_NullOrBothCategories ==
  (Returned /\ str.t = "string" /\ str.s # <<>>) =>
    \/ ret.kind = "null"
    \/ ret.kind \in {"lex", "matches"} /\ Keys(ret) = {"AFFECT", "INTENSITY"}
    \/ ret.kind = "full"

----------------------------------------------------------------------------
(* C3 *)

\* C3: affectimo never raises, whatever the text and whatever the value of
\* every option (a non-string output included): the call ends by returning
\* null or a result.
C3_NeverRaises ==
  Returned => ret.kind \in {"null", "lex", "matches", "full"}

----------------------------------------------------------------------------
(* C4 *)

\* C4 as stated: for every output string other than exactly 'matches' and
\* exactly 'full' the call returns only the score result, and a value that
\* is none of 'lex', 'matches', 'full' also produces a warning.
C4_ExactOutputFallback ==
  (Happened("getMatches") /\ opts.output.t = "string"
     /\ opts.output.s \notin {sMatches, sFull}) =>
    /\ ret.kind = "lex"
    /\ ret.lex = HandedScores
    /\ (opts.output.s # sLex => Warned("invalidOutput"))

\* the output string contains pat, in whatever letter case
Contains(s, pat) ==
  \E i \in 1..(Len(s) - Len(pat) + 1) :
    ToLowerCase(SubSeq(s, i, i + Len(pat) - 1)) = pat

\* C4, amended: for every output string that contains neither 'matches' nor
\* 'full' in any letter case, the call returns only the score result
\* {AFFECT, INTENSITY}; the warning is produced exactly when the string
\* does not contain 'lex' (in any letter case) and opts.logs is above 1.
C4_LooseOutputFallback ==
  (Happened("getMatches") /\ opts.output.t = "string"
     /\ ~Contains(opts.output.s, sMatches)
     /\ ~Contains(opts.output.s, sFull)) =>
    /\ ret.kind = "lex"
    /\ Keys(ret) = {"AFFECT", "INTENSITY"}
    /\ ret.lex = HandedScores
    /\ Warned("invalidOutput") <=>
         (~Contains(opts.output.s, sLex) /\ GreaterThan(opts.logs, IntNum(1)))

\* an unrecognized output has been answered with the scores and the warning
C4_Witness ==
  /\ Happened("getMatches")
  /\ opts.output = Str(<<"b", "o", "g", "u", "s">>)
  /\ ret.kind = "lex"
  /\ Warned("invalidOutput")

----------------------------------------------------------------------------
(* C5 *)

\* C5: with the empty string as text the call returns null for every
\* configuration, and neither tokenizes nor matches nor aggregates.
C5_EmptyStringIsNull ==
  (Returned /\ str = Str(<<>>)) =>
    /\ ret.kind = "null"
    /\ events = <<>>
    /\ passed = NothingHanded

\* the empty string has been answered with null under a configuration that
\* sets an option
C5_Witness ==
  /\ Returned
  /\ str = Str(<<>>)
  /\ ret.kind = "null"
  /\ given.output = IntNum(5)

----------------------------------------------------------------------------
(* C6 *)

\* C6: whenever the tokenizer yields no tokens for the normalized text
\* (null or an empty sequence), the call returns null and generates no
\* n-gram, matches nothing and aggregates nothing.
C6_NoTokensIsNull ==
  (Returned /\ Happened("tokenizer") /\ Words(passed.text) = <<>>) =>
    /\ ret.kind = "null"
    /\ \A i \in DOMAIN events : events[i].op \in {"uk2us", "tokenizer"}

----------------------------------------------------------------------------
(* C7 *)

\* C7: when the encoding option is not supplied, the encoding that the call
\* uses and hands to the Aggregator and the Match Formatter is 'binary'.
C7_DefaultEncodingBinary ==
  (Returned /\ given.encoding = Undefined) =>
    /\ opts.encoding = Str(sBinary)
    /\ (Happened("getMatches") => passed.encoding = Str(sBinary))

----------------------------------------------------------------------------
(* C8 *)

\* C8: locale defaults to 'US', and whenever the caller supplies
\* locale = 'GB' the normalized text goes through the dialect translation
\* before it is tokenized, whatever the other options are.
C8_LocaleDefaultAndTranslation ==
  /\ (Returned /\ given.locale = Undefined) => opts.locale = Str(sUS)
  /\ (Happened("tokenizer") /\ given.locale = Str(sGB)) =>
       /\ Happened("uk2us")
       /\ passed.text = Uk2Us(Normalise(str))

----------------------------------------------------------------------------
(* C9 *)

\* the bound the Matcher is to get for the supplied value v, d being the
\* default: the number itself, or the number it converts to, or d when the
\* option is absent or the conversion fails
BoundFor(v, d) ==
  IF v = Undefined THEN d
  ELSE IF v.t = "number" THEN v
  ELSE IF ToNumber(v).k = "nan" THEN d
  ELSE ToNumber(v)

\* C9: a min or max that is not a number is converted to a number and that
\* number is the bound handed to the Matcher when the conversion succeeds;
\* the default is used only for an option whose conversion fails, and a
\* bound that was a number already is handed on unchanged.
C9_BoundsCoerced ==
  Happened("getMatches") =>
    /\ passed.min = BoundFor(given.min, NEGATIVE_INFINITY)
    /\ passed.max = BoundFor(given.max, POSITIVE_INFINITY)

----------------------------------------------------------------------------
(* C10 *)

\* C10: with nGrams set to false the token sequence handed to the Matcher
\* holds the unigram tokens only, and no bigram or trigram is generated.
C10_NGramsFalseExcludes ==
  (Happened("getMatches") /\ given.nGrams = Bool(FALSE)) =>
    /\ ~Happened("ngram")
    /\ \A i \in DOMAIN passed.toks : Len(passed.toks[i]) = 1

----------------------------------------------------------------------------
(* Vocabulary of the properties that compare two calls                     *)

\* the match records of a call that handed p to its collaborators
MatchesOf(p) == GetMatches(ItemCount(p.toks), Lexicon, p.min, p.max)

\* the outcomes of a call affectimo(text, o) that got as far as the Matcher
Scored(text, o) ==
  {r \in Affectimo(text, o) :
     \E i \in DOMAIN r.events : r.events[i].op = "getMatches"}

\* the number of unigram tokens of the last call
UnigramCount == Len(Words(passed.text))

----------------------------------------------------------------------------
(* C11 *)

\* the orders of an nGrams array that a text of count unigrams can give
KeptOrders(orders, count) ==
  LET Fits(n) == n <= count
  IN SelectSeq(orders, Fits)

\* C11: an order greater than the unigram count is skipped and does not
\* make the call fail (the call fails only for an output that is no
\* string); every other order of the array is generated and merged, before
\* or after a skipped one; and the result and the tokens handed on are
\* those of the same call with the skipped orders removed from nGrams (the
\* unigram-only result when every order is skipped).
C11_SkippedOrdersIgnored ==
  Happened("getMatches") =>
    /\ ret.kind = "TypeError" => TypeOf(opts.output) # "string"
    /\ \A i \in DOMAIN opts.nGrams.a :
         LET n == opts.nGrams.a[i]
         IN IF n > UnigramCount
            THEN /\ [op |-> "skip", n |-> n] \in Range(events)
                 /\ [op |-> "ngram", n |-> n] \notin Range(events)
                 /\ \A j \in DOMAIN passed.toks : Len(passed.toks[j]) # n
            ELSE /\ [op |-> "ngram", n |-> n] \in Range(events)
                 /\ Range(NGrams(passed.text, n)) \subseteq Range(passed.toks)
    /\ \E r \in Scored(str, [given EXCEPT !.nGrams =
                       Arr(KeptOrders(opts.nGrams.a, UnigramCount))]) :
         r.ret = ret /\ r.passed = passed

\* trigrams asked for before bigrams on a text of two words: the trigrams
\* have been skipped, and the bigram generated after that has been matched
C11_Witness ==
  /\ given.nGrams = Arr(<<3, 2>>)
  /\ UnigramCount = 2
  /\ [op |-> "skip", n |-> 3] \in Range(events)
  /\ [op |-> "ngram", n |-> 2] \in Range(events)
  /\ ret.kind = "lex"
  /\ \E i \in DOMAIN HandedMatches.AFFECT :
       Len(HandedMatches.AFFECT[i].term) = 2

----------------------------------------------------------------------------
(* C12 *)

----------------------------------------------------------------------------
(* C13 *)

\* C13: if there is no input string, or the input has no match in the
\* lexicon, affectimo returns null.
C13_NoMatchesIsNull ==
  /\ (Returned /\ str \in {Undefined, Str(<<>>)}) => ret.kind = "null"
  /\ (Happened("getMatches") /\ HandedMatches = NoRows) => ret.kind = "null"

----------------------------------------------------------------------------
(* C14 *)

\* C14: a call leaves the caller's options object unchanged: every field
\* has the same value, or the same absence, after the call as before it, on
\* every return path.
C14_OptsUnchanged ==
  Returned => \A f \in Fields : opts[f] = given[f]

----------------------------------------------------------------------------
(* C15 *)

\* C15: a call that follows a call with the same text and the same options
\* object returns the same result and takes the same path: the same
\* translation decision, the same text and tokens, the same bounds and the
\* same n-gram orders.  (Stated for texts with a word, for which the
\* tokenizer's result is determined.)
C15_SuccessiveCallsAgree ==
  [][(Returned /\ str.t = "string" /\ Words(Normalise(str)) # <<>>) =>
       /\ ret' = ret
       /\ passed' = passed
       /\ events' = events]_vars

----------------------------------------------------------------------------
(* C16 *)

\* C16: the wordcount handed on as the frequency denominator is the number
\* of unigram tokens, except when wcGrams is the boolean true, and then it
\* is the length of the merged token sequence; the documented value 'false'
\* leaves it at the unigram count.
C16_WordcountIsUnigramCount ==
  Happened("getMatches") =>
    passed.wordcount = IF given.wcGrams = Bool(TRUE) THEN Len(passed.toks)
                       ELSE UnigramCount

----------------------------------------------------------------------------
(* C17 *)

\* the bounds a caller may supply, absence included
MinChoices == Supplied("min") \cup {Undefined}

MaxChoices == Supplied("max") \cup {Undefined}

\* the supplied bound v says a number (d when it is absent)
SaysNumber(v) == v = Undefined \/ ToNumber(v).k # "nan"

\* x <= y for two numbers
NumLE(x, y) == ~NumGT(x, y)

\* C17: for the same text and otherwise the same configuration, if
\* min2 <= min1 and max2 >= max1 as the caller supplies them, every match
\* record produced with (min1, max1) is produced with (min2, max2) too.
C17_WideningKeepsMatches ==
  Happened("getMatches") =>
    \A min2 \in MinChoices : \A max2 \in MaxChoices :
      ( /\ SaysNumber(given.min) /\ SaysNumber(given.max)
        /\ SaysNumber(min2) /\ SaysNumber(max2)
        /\ NumLE(BoundFor(min2, NEGATIVE_INFINITY),
                 BoundFor(given.min, NEGATIVE_INFINITY))
        /\ NumLE(BoundFor(given.max, POSITIVE_INFINITY),
                 BoundFor(max2, POSITIVE_INFINITY)) ) =>
        \A r \in Scored(str, [given EXCEPT !.min = min2, !.max = max2]) :
          \A c \in {"AFFECT", "INTENSITY"} :
            Range(HandedMatches[c]) \subseteq Range(MatchesOf(r.passed)[c])

----------------------------------------------------------------------------
(* C18 *)

\* a text followed by a second copy of itself (the copies meet at a word
\* boundary)
Twice(v) == Str(v.s \o v.s)

Terms(recs) == {recs[i].term : i \in DOMAIN recs}

\* every record of recs1 has a record of recs2 with the same term and twice
\* the count
CountsDouble(recs1, recs2) ==
  \A i \in DOMAIN recs1 : \E j \in DOMAIN recs2 :
    /\ recs2[j].term = recs1[i].term
    /\ recs2[j].count = 2 * recs1[i].count

\* the records of single words
Unigrams(recs) ==
  LET Single(r) == Len(r.term) = 1
  IN SelectSeq(recs, Single)

\* the last call scored a string with frequency encoding
ScoredByFrequency ==
  /\ Happened("getMatches")
  /\ str.t = "string"
  /\ given.encoding = Str(sFrequency)

\* C18 as stated: with frequency encoding and the default nGrams and
\* wcGrams, the doubled text has twice the wordcount, the same matched terms
\* with twice the counts, and so the same sum of (count / wordcount) * weight
\* in each category.
C18_DuplicationKeepsFrequency ==
  (ScoredByFrequency /\ given.nGrams = Undefined
     /\ given.wcGrams = Undefined) =>
    \A r \in Scored(Twice(str), given) :
      \A c \in {"AFFECT", "INTENSITY"} :
        /\ r.passed.wordcount = 2 * passed.wordcount
        /\ Terms(MatchesOf(r.passed)[c]) = Terms(HandedMatches[c])
        /\ CountsDouble(HandedMatches[c], MatchesOf(r.passed)[c])
        /\ LexSum(MatchesOf(r.passed)[c], r.passed.encoding,
                  r.passed.wordcount)
             = LexSum(HandedMatches[c], passed.encoding, passed.wordcount)

\* C18, amended: with frequency encoding and the default wcGrams, the
\* doubled text has twice the wordcount, and the single words matched are
\* the same with twice the counts; when no n-gram is asked for
\* (nGrams = []) there is no other record and the sum is the same in each
\* category.
C18_DuplicationKeepsUnigramFrequency ==
  (ScoredByFrequency /\ given.nGrams \in {Undefined, Arr(<<>>)}
     /\ given.wcGrams = Undefined) =>
    \A r \in Scored(Twice(str), given) :
      \A c \in {"AFFECT", "INTENSITY"} :
        /\ r.passed.wordcount = 2 * passed.wordcount
        /\ Terms(Unigrams(MatchesOf(r.passed)[c]))
             = Terms(Unigrams(HandedMatches[c]))
        /\ CountsDouble(Unigrams(HandedMatches[c]),
                        Unigrams(MatchesOf(r.passed)[c]))
        /\ given.nGrams = Arr(<<>>) =>
             /\ MatchesOf(r.passed)[c] = Unigrams(MatchesOf(r.passed)[c])
             /\ LexSum(MatchesOf(r.passed)[c], r.passed.encoding,
                       r.passed.wordcount)
                  = LexSum(HandedMatches[c], passed.encoding,
                           passed.wordcount)

\* a text of two different lexicon words has been scored by frequency
\* without n-grams
C18_Witness ==
  /\ ScoredByFrequency
  /\ given.nGrams = Arr(<<>>)
  /\ passed.wordcount = 2
  /\ Len(HandedMatches.AFFECT) = 2
  /\ ret.kind = "lex"

----------------------------------------------------------------------------
(* C19 *)

\* the lexicon terms of category c that occur among the tokens handed on
Occurring(c) ==
  {Lexicon[c][i].term : i \in DOMAIN Lexicon[c]} \cap Range(passed.toks)

Matched(c) == {HandedMatches[c][i].term : i \in DOMAIN HandedMatches[c]}

\* C19: with the minimum weight at -0.98, the least weight of the lexicon,
\* every lexicon term that occurs in the input is matched, a term of weight
\* -0.98 included; with the minimum weight at 0.91, the greatest weight,
\* none is.
C19_ThresholdAtExtremes ==
  \A c \in {"AFFECT", "INTENSITY"} :
    /\ (Happened("getMatches") /\ given.min = Num(-98)
          /\ given.max = Undefined) => Matched(c) = Occurring(c)
    /\ (Happened("getMatches") /\ given.min = Num(91)
          /\ given.max = Undefined) => Matched(c) = {}

----------------------------------------------------------------------------
(* C20 *)

\* String(v), as a text of the model
StringOf(v) ==
  IF v.t = "undefined" THEN <<"undefined">> ELSE JsToString(v)

\* C20: for a text v that is not a string and whose string form is not
\* empty, affectimo(v, cfg) returns what affectimo(String(v), cfg) returns.
C20_NonStringAsItsString ==
  (Returned /\ str.t # "string" /\ StringOf(str) # <<>>) =>
    \E r \in Affectimo(Str(StringOf(str)), given) : r.ret = ret

----------------------------------------------------------------------------
(* C21 *)

\* the sum of the weights of the lexicon entries whose term is in terms
RECURSIVE WeightsOf(_, _)
WeightsOf(entries, terms) ==
  IF entries = <<>> THEN 0
  ELSE (IF entries[1].term \in terms THEN entries[1].weight ELSE 0)
       + WeightsOf(Tail(entries), terms)

\* C21: in binary encoding the score of a category is the sum of the
\* weights of its matched terms, each taken once whatever its count, plus
\* the intercept (rounded to places).
C21_BinaryIgnoresCounts ==
  \A c \in {"AFFECT", "INTENSITY"} :
    (ret.kind = "lex" /\ given.encoding = Str(sBinary)) =>
      ret.lex[c] = RoundDec(AddDec(Dec(WeightsOf(Lexicon[c], Matched(c)), 1),
                                   ints[c]),
                            PlacesOf(opts.places))

\* a text in which a matched term occurs twice has been scored in binary
\* encoding
C21_Witness ==
  /\ ret.kind = "lex"
  /\ given.encoding = Str(sBinary)
  /\ \E i \in DOMAIN HandedMatches.AFFECT : HandedMatches.AFFECT[i].count = 2

----------------------------------------------------------------------------
(* C22 *)

\* C22: the n-grams of every requested order that is not skipped are in the
\* token sequence before the wordcount is recalculated for wcGrams and
\* before the Matcher reads the tokens: every n-gram step comes before
\* getMatches, the recalculated wordcount counts the n-grams, and what is
\* returned is computed from the merged sequence.
C22_NGramsMergedBeforeMatcher ==
  Happened("getMatches") =>
    /\ \A i \in DOMAIN events : \A j \in DOMAIN events :
         (events[i].op \in {"ngram", "skip"} /\ events[j].op = "getMatches")
           => i < j
    /\ \A k \in DOMAIN opts.nGrams.a :
         opts.nGrams.a[k] <= UnigramCount =>
           /\ [op |-> "ngram", n |-> opts.nGrams.a[k]] \in Range(events)
           /\ Range(NGrams(passed.text, opts.nGrams.a[k]))
                \subseteq Range(passed.toks)
    /\ Truthy(opts.wcGrams) => passed.wordcount = Len(passed.toks)
    /\ ret.kind = "lex" => ret.lex = HandedScores
    /\ ret.kind = "matches" => ret.matches = HandedRows

\* a bigram has been generated, counted into the wordcount and matched
C22_Witness ==
  /\ Happened("getMatches")
  /\ given.wcGrams = Bool(TRUE)
  /\ UnigramCount = 2
  /\ passed.wordcount = 3
  /\ ret.kind = "lex"
  /\ \E i \in DOMAIN HandedMatches.AFFECT :
       Len(HandedMatches.AFFECT[i].term) = 2

----------------------------------------------------------------------------
(* C23 *)

\* the number of places of the text handed on at which the term stands: the
\* spans of as many neighbouring words as the term has
OccurrencesOf(term) ==
  LET w == Words(passed.text)
  IN Cardinality({i \in 1..(Len(w) - Len(term) + 1) :
                    SubSeq(w, i, i + Len(term) - 1) = term})

\* C23: for every nGrams array of positive integers the count of a term in
\* the token pool is the number of its occurrences in the input, and no
\* term is counted more often than it occurs.
C23_CountsAreOccurrences ==
  Happened("getMatches") =>
    \A t \in Range(passed.toks) :
      ItemCount(passed.toks)[t] = OccurrencesOf(t)

----------------------------------------------------------------------------
(* C24 *)

\* the places of the nGrams array whose order is above the unigram count
SkippedAt == {i \in DOMAIN opts.nGrams.a : opts.nGrams.a[i] > UnigramCount}

\* C24: with logging enabled, k skipped orders give exactly k skip
\* messages, one naming each skipped order.
C24_OneMessagePerSkippedOrder ==
  (Happened("getMatches") /\ GreaterThan(opts.logs, IntNum(0))) =>
    /\ Cardinality({j \in DOMAIN warnings : warnings[j].msg = "nGramError"})
         = Cardinality(SkippedAt)
    /\ \A i \in SkippedAt :
         [msg |-> "nGramError", n |-> opts.nGrams.a[i]] \in Range(warnings)

----------------------------------------------------------------------------
(* C25 *)

\* C25: when suppressLog is truthy the call prints no warning and no error
\* on any path, whatever logs was.
C25_SuppressLogSilences ==
  (Returned /\ Truthy(given.suppressLog)) => warnings = <<>>

\* a call with suppressLog and a log level of 1 has skipped an n-gram
\* order, which a log level of 1 reports, and has printed nothing
C25_Witness ==
  /\ Truthy(given.suppressLog)
  /\ given.logs = IntNum(1)
  /\ Happened("skip")
  /\ warnings = <<>>

----------------------------------------------------------------------------
(* C26 *)

\* the options that the defaulting writes
DefaultedFields == Fields \ {"suppressLog"}

\* C26: after a call has returned, a second call with the same options
\* object leaves every defaulted field at the value it had after the first.
C26_DefaultingIdempotent ==
  [][Returned => \A f \in DefaultedFields : opts'[f] = opts[f]]_vars

====
